---- MODULE Spec2Model ----
(***************************************************************************)
(* The newsletter form of store-newsletter: the reducer-held form state    *)
(* (NewsletterContext), the submit handler and the dedup-gated legacy      *)
(* write (Newsletter.tsx), and the three remote operations they drive.     *)
(*                                                                         *)
(* One action of the model is one task of the UI thread: a user gesture    *)
(* or the resolution of a remote call, together with every dispatch,       *)
(* effect and re-render that React runs before the next task.              *)
(***************************************************************************)
EXTENDS Integers, Sequences, FiniteSets, TLC

\* Bounds of the exploration.
MaxSubmits == 2
MaxEdits == 2
MaxResubmits == 3

(***************************************************************************)
(* Values.  A string is a sequence of characters.  A value that may be     *)
(* null / undefined is None or Some(v).                                    *)
(***************************************************************************)
None == {}
Some(x) == {x}
Val(o) == CHOOSE x \in o : TRUE

EmptyString == <<>>
EmailA == <<"a", "@", "b", ".", "c">>
EmailB == <<"d", "@", "e", ".", "f">>
Blank == <<" ">>
NameN == <<"n">>
Phone5 == <<"5">>

EmailValues == {EmptyString, EmailA, EmailB}
NameValues == {Some(Blank), Some(NameN)}
PhoneValues == {Some(EmptyString), Some(Phone5)}
CustomFieldsValues == {Some(<<[name |-> "k", value |-> "v"]>>)}
ConfirmationValues == {Some(TRUE), Some(FALSE)}
StoredEmails == {EmailA, EmailB}

\* The props of the form: which overrides are supplied.  Each prop is supplied in
\* two of the combinations and missing in two, and so is each pair of props.
PropsValues ==
    {[LoadingState |-> FALSE, ErrorState |-> FALSE, SuccessState |-> FALSE],
     [LoadingState |-> FALSE, ErrorState |-> TRUE, SuccessState |-> TRUE],
     [LoadingState |-> TRUE, ErrorState |-> FALSE, SuccessState |-> TRUE],
     [LoadingState |-> TRUE, ErrorState |-> TRUE, SuccessState |-> FALSE]}

NEWS_LETTER_MASTER_DATA_ACRONYM == "NL"
NEWS_LETTER_MASTER_DATA_SCHEMA == "newsLetterV1"

(***************************************************************************)
(* modules/formValidators                                                  *)
(***************************************************************************)
RECURSIVE TrimStart(_)
TrimStart(s) ==
    IF s # <<>> /\ Head(s) = " " THEN TrimStart(Tail(s)) ELSE s

RECURSIVE TrimEnd(_)
TrimEnd(s) ==
    IF s # <<>> /\ s[Len(s)] = " " THEN TrimEnd(SubSeq(s, 1, Len(s) - 1)) ELSE s

Trim(s) == TrimEnd(TrimStart(s))

\* local@domain.tld: one "@", a non-empty local part, and after the "@" a
\* non-empty domain, a ".", and a non-empty tld; no blanks.
validateEmail(s) ==
    /\ \A k \in 1..Len(s) : s[k] # " "
    /\ Cardinality({k \in 1..Len(s) : s[k] = "@"}) = 1
    /\ \E i \in 1..Len(s), j \in 1..Len(s) :
          /\ s[i] = "@"
          /\ i > 1
          /\ s[j] = "."
          /\ j > i + 1
          /\ j < Len(s)

validateUserName(s) == Len(Trim(s)) > 0

validatePhoneNumber(s) == Len(Trim(s)) > 0

(***************************************************************************)
(* Newsletter.tsx: the request builders                                    *)
(***************************************************************************)
\* JavaScript truthiness of a string | null | undefined.
Truthy(o) == o # None /\ Val(o) # EmptyString

\* JSON.stringify of a list of {name, value} objects, as its tokens.
RECURSIVE StringifyItems(_)
StringifyItems(fs) ==
    IF fs = <<>> THEN <<>>
    ELSE <<"{", "name", ":", Head(fs).name, ",", "value", ":", Head(fs).value, "}">>
         \o (IF Tail(fs) = <<>> THEN <<>> ELSE <<",">>)
         \o StringifyItems(Tail(fs))

JSONstringify(fs) == <<"[">> \o StringifyItems(fs) \o <<"]">>

generateMutationVariables(email, name, phone, customFields) ==
    [acronym |-> NEWS_LETTER_MASTER_DATA_ACRONYM,
     schema |-> NEWS_LETTER_MASTER_DATA_SCHEMA,
     document |->
        [fields |->
            <<[key |-> "email", value |-> email]>>
            \o (IF Truthy(name) THEN <<[key |-> "name", value |-> Val(name)]>> ELSE <<>>)
            \o (IF Truthy(phone) THEN <<[key |-> "phone", value |-> Val(phone)]>> ELSE <<>>)
            \o (IF customFields # None
                THEN <<[key |-> "customFields", value |-> JSONstringify(Val(customFields))]>>
                ELSE <<>>)]]

\* The fields object of the native write, as its set of (key, value) entries.
generateMutationVariablesNative(email, name, phone, customFields) ==
    [email |-> email,
     fields |->
        (IF Truthy(name) THEN {<<"name", Val(name)>>} ELSE {})
        \cup (IF Truthy(phone) THEN {<<"phone", Val(phone)>>} ELSE {})
        \cup (IF customFields # None
              THEN {<<Val(customFields)[k].name, Val(customFields)[k].value>> :
                        k \in DOMAIN Val(customFields)}
              ELSE {})]

(***************************************************************************)
(* schemas/newsLetter.js: the pattern the store enforces on the email of   *)
(* a document, ^\S+@\S+\.\S+$                                              *)
(***************************************************************************)
matchesSchemaPattern(s) ==
    /\ \A k \in 1..Len(s) : s[k] # " "
    /\ \E i \in 1..Len(s), j \in 1..Len(s) :
          /\ s[i] = "@"
          /\ i > 1
          /\ s[j] = "."
          /\ j > i + 1
          /\ j < Len(s)

(***************************************************************************)
(* NewsletterContext: SubmissionState, the reducer                         *)
(***************************************************************************)
SubmissionState(data, loading, error) ==
    [data |-> data, loading |-> loading, error |-> error]

\* Faulty variant of newsletterContextReducer: a new email also lowers its flag.
newsletterContextReducer_EmailClearsFlag(s, action) ==
    CASE action.type = "UPDATE_EMAIL" ->
            [s EXCEPT !.email = action.value, !.invalidEmail = FALSE]
      [] action.type = "UPDATE_NAME" -> [s EXCEPT !.name = action.value]
      [] action.type = "UPDATE_PHONE" -> [s EXCEPT !.phone = action.value]
      [] action.type = "UPDATE_CONFIRMATION" -> [s EXCEPT !.confirmation = action.value]
      [] action.type = "SET_INVALID_EMAIL" -> [s EXCEPT !.invalidEmail = action.value]
      [] action.type = "SET_INVALID_NAME" -> [s EXCEPT !.invalidName = action.value]
      [] action.type = "SET_INVALID_PHONE" -> [s EXCEPT !.invalidPhone = action.value]
      [] action.type = "SET_MUTATION_VALUES" -> [s EXCEPT !.submission = action.value]
      [] action.type = "SET_CUSTOM_VALUES" -> [s EXCEPT !.customFields = action.value]
      [] action.type = "SET_QUERY_VALUES" -> [s EXCEPT !.validNewsLetter = action.value]
      [] OTHER -> s

newsletterContextReducer(s, action) ==
    CASE action.type = "UPDATE_EMAIL" -> [s EXCEPT !.email = action.value]
      [] action.type = "UPDATE_NAME" -> [s EXCEPT !.name = action.value]
      [] action.type = "UPDATE_PHONE" -> [s EXCEPT !.phone = action.value]
      [] action.type = "UPDATE_CONFIRMATION" -> [s EXCEPT !.confirmation = action.value]
      [] action.type = "SET_INVALID_EMAIL" -> [s EXCEPT !.invalidEmail = action.value]
      [] action.type = "SET_INVALID_NAME" -> [s EXCEPT !.invalidName = action.value]
      [] action.type = "SET_INVALID_PHONE" -> [s EXCEPT !.invalidPhone = action.value]
      [] action.type = "SET_MUTATION_VALUES" -> [s EXCEPT !.submission = action.value]
      [] action.type = "SET_CUSTOM_VALUES" -> [s EXCEPT !.customFields = action.value]
      [] action.type = "SET_QUERY_VALUES" -> [s EXCEPT !.validNewsLetter = action.value]
      [] OTHER -> s

Dispatch(s, type, value) == newsletterContextReducer(s, [type |-> type, value |-> value])

\* The initial value handed to useReducer: the results of the hooks at the
\* first render, and a dedup query marked loading until the effects run.
InitialResult == SubmissionState(None, FALSE, None)

InitialState ==
    [email |-> EmptyString,
     name |-> None,
     phone |-> None,
     customFields |-> None,
     confirmation |-> None,
     invalidEmail |-> FALSE,
     invalidName |-> FALSE,
     invalidPhone |-> FALSE,
     submission |-> InitialResult,
     validNewsLetter |-> SubmissionState(None, TRUE, None)]

(***************************************************************************)
(* Newsletter.tsx: what the component returns                              *)
(***************************************************************************)
\* Faulty variant of Render: the loading view does not ask for the override.
Render_IgnoresLoadingProp(submission, p) ==
    IF submission.loading THEN "LoadingState"
    ELSE IF submission.error # None
         THEN (IF p.ErrorState THEN "ErrorState" ELSE "defaultErrorMessage")
    ELSE IF submission.data # None
            /\ Val(submission.data).createDocument.documentId # <<>>
         THEN (IF p.SuccessState THEN "SuccessState" ELSE "defaultSuccessMessage")
    ELSE "newsletterForm"

\* subscribedUserData={{ email, name, phone }}: what the SuccessState override is
\* handed, read from the state of the render that returns it.
subscribedUserData(s) == [email |-> s.email, name |-> s.name, phone |-> s.phone]

HasDocumentId(submission) ==
    /\ submission.data # None
    /\ Val(submission.data).createDocument.documentId # EmptyString

Render(submission, p) ==
    IF submission.loading /\ p.LoadingState THEN "LoadingState"
    ELSE IF submission.error # None
         THEN (IF p.ErrorState THEN "ErrorState" ELSE "defaultErrorMessage")
    ELSE IF HasDocumentId(submission)
         THEN (IF p.SuccessState THEN "SuccessState" ELSE "defaultSuccessMessage")
    ELSE "newsletterForm"

(***************************************************************************)
(* State                                                                   *)
(***************************************************************************)
VARIABLES
    state,                \* the reducer's State (NewsletterContext)
    props,                \* which of LoadingState / ErrorState / SuccessState are supplied
    mounted,              \* whether the provider's effects have run once
    mutationResult,       \* {data, loading, error} of useMutation(createDocument)
    queryResult,          \* {data, loading, error} of useLazyQuery(getDocuments)
    lazyOptions,          \* variables of the latest execution of the lazy query
    memoDeps,             \* validNewsLetter.data at the last run of the useMemo callback
    nativeInFlight,       \* handleSubmit calls suspended on the native write
    queryInFlight,        \* the dedup query the hook is waiting for, if any
    mutationsInFlight,    \* legacy create-mutations not yet resolved
    mostRecentMutationId, \* id of the latest call of subscribeCustom
    store,                \* number of documents of the legacy store, per email
    rendered,             \* what the last render of Newsletter returned
    pixelEvents,          \* events pushed to the analytics sink
    nativeIssued,         \* native writes issued
    queryIssued,          \* dedup queries issued
    createLog,            \* legacy create-mutations issued: document email, query filter
    submits,              \* submit gestures so far
    edits,                \* field updates so far
    last,                 \* the task that led to this state
    succeeded,            \* the email of the submission that last turned the form to the
                          \* success view, if any
    dispatched            \* how many actions the last task dispatched into the store

vars ==
    <<state, props, mounted, mutationResult, queryResult, lazyOptions, memoDeps,
      nativeInFlight, queryInFlight, mutationsInFlight, mostRecentMutationId, store,
      rendered, pixelEvents, nativeIssued, queryIssued, createLog, submits, edits, last,
      succeeded, dispatched>>

ErrorViews == {"ErrorState", "defaultErrorMessage"}
SuccessViews == {"SuccessState", "defaultSuccessMessage"}

DefaultId == <<"d", "e", "f", "a", "u", "l", "t", "-", "i", "d">>
CreatedId == <<"i", "d">>
ApolloError == Some("ApolloError")

\* Faulty variant of SynthesizedResult: the identifier is set but loading is left on.
SynthesizedResult_StillLoading ==
    SubmissionState(Some([createDocument |-> [documentId |-> DefaultId]]), TRUE, None)

\* The result the useMemo callback dispatches when the email is already stored.
SynthesizedResult ==
    SubmissionState(Some([createDocument |-> [documentId |-> DefaultId]]), FALSE, None)

\* What a task leaves in `last`: its kind, whether it went well (a valid submit, a
\* resolution without error), a count (documents returned; 1 for the resolution of the
\* most recent mutation), the invalid flags it found and the calls handleSubmit made
\* in it, in the order it made them.
TaskWith(op, ok, n, calls) ==
    [op |-> op, ok |-> ok, n |-> n,
     flags |-> <<state.invalidEmail, state.invalidName, state.invalidPhone>>,
     calls |-> calls]

Task(op, ok, n) == TaskWith(op, ok, n, <<>>)

EmailOf(variables) == variables.document.fields[1].value

\* The filter of the dedup query, `email=${email}`, and the value it names.
WhereClause(email) == <<"e", "m", "a", "i", "l", "=">> \o email
FilterValue(where) == SubSeq(where, 7, Len(where))

Init ==
    /\ state = InitialState
    /\ props \in PropsValues
    /\ mounted = FALSE
    /\ mutationResult = InitialResult
    /\ queryResult = InitialResult
    /\ lazyOptions = None
    /\ memoDeps = None
    /\ nativeInFlight = <<>>
    /\ queryInFlight = None
    /\ mutationsInFlight = {}
    /\ mostRecentMutationId = 0
    /\ store \in {[e \in StoredEmails |-> 0],
                  [e \in StoredEmails |-> IF e = EmailB THEN 1 ELSE 0]}
    /\ rendered = Render(InitialState.submission, props)
    /\ pixelEvents = 0
    /\ nativeIssued = 0
    /\ queryIssued = 0
    /\ createLog = <<>>
    /\ submits = 0
    /\ edits = 0
    /\ last = [op |-> "init", ok |-> TRUE, n |-> 0, flags |-> <<FALSE, FALSE, FALSE>>,
               calls |-> <<>>]
    /\ succeeded = None
    /\ dispatched = 0

(***************************************************************************)
(* NewsletterContextProvider: the two effects                              *)
(***************************************************************************)
\* useEffect(..., [error, loading, data]) of the create-mutation's result.
MutationEffect(s, old, new) ==
    IF new # old THEN Dispatch(s, "SET_MUTATION_VALUES", new) ELSE s

\* useEffect(..., [error, loading, data]) of the lazy query's result.
QueryEffect(s, old, new) ==
    IF new # old THEN Dispatch(s, "SET_QUERY_VALUES", new) ELSE s

(***************************************************************************)
(* Newsletter: useMemo(async () => {...}, [validNewsLetter.data])          *)
(***************************************************************************)
\* Faulty variant of MemoRuns: the callback stops running once a create-mutation was issued.
MemoRuns_UntilFirstCreate(s) ==
    s.validNewsLetter.data # memoDeps /\ mostRecentMutationId = 0

\* Faulty variant of MemoRuns: a callback without dependencies, run at every render.
MemoRuns_EveryRender(s) == TRUE

MemoRuns(s) == s.validNewsLetter.data # memoDeps

\* Faulty variant of MemoCreates: any dedup result creates, whatever it holds.
MemoCreates_IgnoresCount(s) ==
    /\ s.validNewsLetter.data # memoDeps
    /\ s.validNewsLetter.data # None

\* Faulty variant of MemoCreates: a create-mutation that failed is issued again at
\* the next render.
MemoCreates_RetriesFailure(s) ==
    /\ s.validNewsLetter.data # None
    /\ Len(Val(s.validNewsLetter.data).documents) <= 0
    /\ (s.validNewsLetter.data # memoDeps \/ s.submission.error # None)

\* documents.length <= 0 (undefined <= 0 is false)
MemoCreates(s) ==
    /\ MemoRuns(s)
    /\ s.validNewsLetter.data # None
    /\ Len(Val(s.validNewsLetter.data).documents) <= 0

\* Faulty variant of MemoSynthesizes: documents.length > 1.
MemoSynthesizes_OffByOne(s) ==
    /\ MemoRuns(s)
    /\ s.validNewsLetter.data # None
    /\ Len(Val(s.validNewsLetter.data).documents) > 1

\* documents.length > 0
MemoSynthesizes(s) ==
    /\ MemoRuns(s)
    /\ s.validNewsLetter.data # None
    /\ Len(Val(s.validNewsLetter.data).documents) > 0

\* Faulty variant of onMutationStart: the result is filled in optimistically, with an
\* identifier, before the store has answered.
onMutationStart_Optimistic(result) ==
    SubmissionState(Some([createDocument |-> [documentId |-> <<"i", "d">>]]), FALSE, None)

\* runMutation of useMutation: the result turns to loading unless it is loading.
onMutationStart(result) ==
    IF result.loading THEN result ELSE SubmissionState(None, TRUE, None)

\* The dispatches of an effect and of the useMemo callback, counted.
EffectDispatches(old, new) == IF new # old THEN 1 ELSE 0

MemoDispatches(s, mres) ==
    IF MemoCreates(s) THEN EffectDispatches(mres, onMutationStart(mres))
    ELSE IF MemoSynthesizes(s) THEN 1
    ELSE 0

\* The render that ends a task: s is the state after the task's own dispatches and
\* effects, mres the create-mutation's result and inflight the unresolved
\* create-mutations after the task's own update.
Commit(s, mres, inflight) ==
    LET creates == MemoCreates(s)
        started == IF creates THEN onMutationStart(mres) ELSE mres
        s2 == IF creates THEN MutationEffect(s, mres, started)
              ELSE IF MemoSynthesizes(s)
                   THEN Dispatch(s, "SET_MUTATION_VALUES", SynthesizedResult)
              ELSE s
        variables == generateMutationVariables(s.email, s.name, s.phone, s.customFields)
    IN  /\ memoDeps' = s.validNewsLetter.data
        /\ mutationResult' = started
        /\ mostRecentMutationId' = IF creates THEN mostRecentMutationId + 1
                                   ELSE mostRecentMutationId
        /\ mutationsInFlight' =
              IF creates
              THEN inflight \cup
                     {[id |-> mostRecentMutationId + 1, variables |-> variables]}
              ELSE inflight
        /\ createLog' =
              IF creates
              THEN Append(createLog, [email |-> EmailOf(variables), where |-> Val(lazyOptions).where])
              ELSE createLog
        /\ state' = s2
        /\ rendered' = Render(s2.submission, props)
        /\ succeeded' =
              IF s2.submission # state.submission /\ Render(s2.submission, props) \in SuccessViews
              THEN Some(FilterValue(IF MemoSynthesizes(s)
                                    THEN Val(lazyOptions).where
                                    ELSE createLog'[mostRecentMutationId'].where))
              ELSE succeeded

(***************************************************************************)
(* Mount: the first commit runs both effects.                              *)
(***************************************************************************)
Mount ==
    /\ ~mounted
    /\ mounted' = TRUE
    /\ Commit(Dispatch(Dispatch(state, "SET_MUTATION_VALUES", mutationResult),
                       "SET_QUERY_VALUES", queryResult),
              mutationResult, mutationsInFlight)
    /\ last' = Task("mount", TRUE, 0)
    /\ dispatched' = 2
    /\ UNCHANGED <<props, queryResult, lazyOptions, nativeInFlight, queryInFlight, store,
                   pixelEvents, nativeIssued, queryIssued, submits, edits>>

(***************************************************************************)
(* The inputs of the form: each dispatches one update.  They are children  *)
(* of the form element, so they exist only while the form is rendered.     *)
(***************************************************************************)
FormShown == mounted /\ rendered = "newsletterForm"

Update(type, value) ==
    /\ FormShown
    /\ edits < MaxEdits
    /\ edits' = edits + 1
    /\ Commit(Dispatch(state, type, value), mutationResult, mutationsInFlight)
    /\ last' = Task("edit", TRUE, 0)
    /\ dispatched' = 1 + MemoDispatches(Dispatch(state, type, value), mutationResult)
    /\ UNCHANGED <<props, mounted, queryResult, lazyOptions, nativeInFlight, queryInFlight,
                   store, pixelEvents, nativeIssued, queryIssued, submits>>

UpdateEmail == \E v \in EmailValues : Update("UPDATE_EMAIL", v)
UpdateName == \E v \in NameValues : Update("UPDATE_NAME", v)
UpdatePhone == \E v \in PhoneValues : Update("UPDATE_PHONE", v)
UpdateConfirmation == \E v \in ConfirmationValues : Update("UPDATE_CONFIRMATION", v)
SetCustomValues == \E v \in CustomFieldsValues : Update("SET_CUSTOM_VALUES", v)

(***************************************************************************)
(* Newsletter: validateFormInputs and handleSubmit                         *)
(***************************************************************************)
isEmailValid(s) == validateEmail(s.email)
isNameValid(s) == s.name = None \/ validateUserName(Val(s.name))
isPhoneValid(s) == s.phone = None \/ validatePhoneNumber(Val(s.phone))

\* Faulty variant of validateFormInputs: the flags are raised, never lowered.
validateFormInputs_OnlyOnFailure(s) ==
    Dispatch(Dispatch(Dispatch(s,
        "SET_INVALID_EMAIL", s.invalidEmail \/ ~isEmailValid(s)),
        "SET_INVALID_NAME", s.invalidName \/ ~isNameValid(s)),
        "SET_INVALID_PHONE", s.invalidPhone \/ ~isPhoneValid(s))

\* The three dispatches of validateFormInputs.
validateFormInputs(s) ==
    Dispatch(Dispatch(Dispatch(s,
        "SET_INVALID_EMAIL", ~isEmailValid(s)),
        "SET_INVALID_NAME", ~isNameValid(s)),
        "SET_INVALID_PHONE", ~isPhoneValid(s))

\* Faulty variant of areUserInputsValid: the email is left out of the result.
areUserInputsValid_IgnoresEmail(s) == isNameValid(s) /\ isPhoneValid(s)

areUserInputsValid(s) == isNameValid(s) /\ isPhoneValid(s) /\ isEmailValid(s)

QueryVariables(email) ==
    [acronym |-> NEWS_LETTER_MASTER_DATA_ACRONYM,
     schema |-> NEWS_LETTER_MASTER_DATA_SCHEMA,
     fields |-> <<"email">>,
     where |-> WhereClause(email)]

\* Faulty variant of SubmitCalls: the event is pushed after the native write is issued.
SubmitCalls_WriteFirst == <<"subscribe", "push">>

\* What handleSubmit calls once the inputs are valid, up to its first await, and
\* what it calls when that await returns.
SubmitCalls == <<"push", "subscribe">>
ResumeCalls == <<"validNewsLetterCustom">>

\* handleSubmit up to its first await: validation, the analytics event, the
\* native write.  The call keeps the email of the render it was created in.
Submit(max) ==
    /\ FormShown
    /\ submits < max
    /\ submits' = submits + 1
    /\ IF areUserInputsValid(state)
       THEN /\ pixelEvents' = pixelEvents + 1
            /\ nativeIssued' = nativeIssued + 1
            /\ nativeInFlight' =
                  Append(nativeInFlight,
                         [variables |-> generateMutationVariablesNative(
                                            state.email, state.name, state.phone,
                                            state.customFields),
                          email |-> state.email])
       ELSE UNCHANGED <<pixelEvents, nativeIssued, nativeInFlight>>
    /\ Commit(validateFormInputs(state), mutationResult, mutationsInFlight)
    /\ last' = TaskWith("submit", areUserInputsValid(state), 0,
                         IF areUserInputsValid(state) THEN SubmitCalls ELSE <<>>)
    /\ dispatched' = 3 + MemoDispatches(validateFormInputs(state), mutationResult)
    /\ UNCHANGED <<props, mounted, queryResult, lazyOptions, queryInFlight, store,
                   queryIssued, edits>>

handleSubmit == Submit(MaxSubmits)

(***************************************************************************)
(* The native write settles (its rejection is caught) and handleSubmit     *)
(* goes on to execute the lazy query, whose result turns to loading.       *)
(* Every execution is sent to the store and replaces the one the hook was  *)
(* waiting for; while it is pending the hook's data is undefined.          *)
(***************************************************************************)
RemoveAt(seq, i) == SubSeq(seq, 1, i - 1) \o SubSeq(seq, i + 1, Len(seq))

ExecutingResult == SubmissionState(None, TRUE, None)

\* Faulty variant of subscribeSettles: without the catch a rejection ends handleSubmit.
subscribeSettles_Uncaught(ok) == ok

\* await subscribe(...).catch(() => { }): handleSubmit goes on whatever the outcome.
subscribeSettles(ok) == TRUE

NativeResolve ==
    \E i \in DOMAIN nativeInFlight, ok \in BOOLEAN :
        /\ nativeInFlight' = RemoveAt(nativeInFlight, i)
        /\ IF subscribeSettles(ok)
           THEN /\ lazyOptions' = Some(QueryVariables(nativeInFlight[i].email))
                /\ queryInFlight' = lazyOptions'
                /\ queryIssued' = queryIssued + 1
                /\ queryResult' = ExecutingResult
           ELSE UNCHANGED <<lazyOptions, queryInFlight, queryIssued, queryResult>>
        /\ Commit(QueryEffect(state, queryResult, queryResult'),
                  mutationResult, mutationsInFlight)
        /\ last' = TaskWith("native", ok, 0,
                             IF subscribeSettles(ok) THEN ResumeCalls ELSE <<>>)
        /\ dispatched' =
              EffectDispatches(queryResult, queryResult')
              + MemoDispatches(QueryEffect(state, queryResult, queryResult'), mutationResult)
        /\ UNCHANGED <<props, mounted, store, pixelEvents, nativeIssued, submits, edits>>

(***************************************************************************)
(* The dedup query resolves: the store answers with the documents whose    *)
(* email is the one the filter names, or the query fails.                  *)
(***************************************************************************)
Stored(e) == IF e \in DOMAIN store THEN store[e] ELSE 0

Documents(where) ==
    [k \in 1..Stored(FilterValue(where)) |-> [email |-> FilterValue(where)]]

QueryResolve ==
    \E ok \in BOOLEAN :
        /\ queryInFlight # None
        /\ LET docs == Documents(Val(queryInFlight).where)
               result == IF ok THEN SubmissionState(Some([documents |-> docs]), FALSE, None)
                         ELSE SubmissionState(None, FALSE, ApolloError)
           IN  /\ queryInFlight' = None
               /\ queryResult' = result
               /\ Commit(QueryEffect(state, queryResult, result),
                         mutationResult, mutationsInFlight)
               /\ last' = Task("query", ok, IF ok THEN Len(docs) ELSE 0)
               /\ dispatched' =
                     EffectDispatches(queryResult, result)
                     + MemoDispatches(QueryEffect(state, queryResult, result), mutationResult)
        /\ UNCHANGED <<props, mounted, lazyOptions, nativeInFlight, store, pixelEvents,
                       nativeIssued, queryIssued, submits, edits>>

(***************************************************************************)
(* A legacy create-mutation resolves: the store adds the document, or the  *)
(* mutation rejects.  Only the most recent call updates the hook's result. *)
(***************************************************************************)
CreatedResult ==
    SubmissionState(Some([createDocument |-> [documentId |-> CreatedId]]), FALSE, None)

FailedResult == SubmissionState(None, FALSE, ApolloError)

isMostRecentMutation(m) == m.id = mostRecentMutationId

MutationResolve ==
    \E m \in mutationsInFlight, ok \in BOOLEAN :
        /\ ok => matchesSchemaPattern(EmailOf(m.variables))
        /\ store' = IF ok THEN [store EXCEPT ![EmailOf(m.variables)] = @ + 1] ELSE store
        /\ LET result == IF isMostRecentMutation(m)
                         THEN (IF ok THEN CreatedResult ELSE FailedResult)
                         ELSE mutationResult
           IN  /\ Commit(MutationEffect(state, mutationResult, result),
                         result, mutationsInFlight \ {m})
               /\ last' = Task("mutation", ok, IF isMostRecentMutation(m) THEN 1 ELSE 0)
               /\ dispatched' =
                     EffectDispatches(mutationResult, result)
                     + MemoDispatches(MutationEffect(state, mutationResult, result), result)
        /\ UNCHANGED <<props, mounted, queryResult, lazyOptions, nativeInFlight,
                       queryInFlight, pixelEvents, nativeIssued, queryIssued, submits, edits>>

Next ==
    \/ Mount
    \/ UpdateEmail
    \/ UpdateName
    \/ UpdatePhone
    \/ UpdateConfirmation
    \/ SetCustomValues
    \/ handleSubmit
    \/ NativeResolve
    \/ QueryResolve
    \/ MutationResolve

Spec == Init /\ [][Next]_vars

(***************************************************************************)
(* The same form when every remote operation that was issued is answered:  *)
(* a pending native write, dedup query or create-mutation resolves sooner   *)
(* or later, with success or failure.  The user's gestures stay optional.   *)
(***************************************************************************)
SpecAnswered ==
    /\ Spec
    /\ WF_vars(NativeResolve)
    /\ WF_vars(QueryResolve)
    /\ WF_vars(MutationResolve)

(***************************************************************************)
(* The same form under a user who types nothing but the email and submits  *)
(* up to MaxResubmits times.                                               *)
(***************************************************************************)
handleResubmit == Submit(MaxResubmits)

NextResubmit ==
    \/ Mount
    \/ UpdateEmail
    \/ handleResubmit
    \/ NativeResolve
    \/ QueryResolve
    \/ MutationResolve

SpecResubmit == Init /\ [][NextResubmit]_vars

(***************************************************************************)
(* The reducer on its own: up to MaxEdits actions, of every type and of a  *)
(* type the reducer does not know, dispatched one after another.           *)
(***************************************************************************)
ResultValues ==
    {InitialResult, ExecutingResult, SynthesizedResult, CreatedResult, FailedResult}

QueryResultValues ==
    {InitialResult, ExecutingResult, FailedResult,
     SubmissionState(Some([documents |-> <<>>]), FALSE, None),
     SubmissionState(Some([documents |-> <<[email |-> EmailB]>>]), FALSE, None)}

ActionValues(type) ==
    CASE type = "UPDATE_EMAIL" -> EmailValues
      [] type = "UPDATE_NAME" -> NameValues \cup {None}
      [] type = "UPDATE_PHONE" -> PhoneValues \cup {None}
      [] type = "UPDATE_CONFIRMATION" -> ConfirmationValues \cup {None}
      [] type = "SET_CUSTOM_VALUES" -> CustomFieldsValues \cup {None}
      [] type \in {"SET_INVALID_EMAIL", "SET_INVALID_NAME", "SET_INVALID_PHONE"} -> BOOLEAN
      [] type = "SET_MUTATION_VALUES" -> ResultValues
      [] type = "SET_QUERY_VALUES" -> QueryResultValues
      [] OTHER -> {None}

KnownTypes ==
    {"UPDATE_EMAIL", "UPDATE_NAME", "UPDATE_PHONE", "UPDATE_CONFIRMATION",
     "SET_CUSTOM_VALUES", "SET_INVALID_EMAIL", "SET_INVALID_NAME", "SET_INVALID_PHONE",
     "SET_MUTATION_VALUES", "SET_QUERY_VALUES"}

ActionTypes == KnownTypes \cup {"UNKNOWN_ACTION"}

Reduce ==
    \E type \in ActionTypes :
        \E value \in ActionValues(type) :
            /\ edits < MaxEdits
            /\ edits' = edits + 1
            /\ state' = newsletterContextReducer(state, [type |-> type, value |-> value])
            /\ last' = Task(type, TRUE, 0)
            /\ dispatched' = 1
            /\ UNCHANGED <<props, mounted, mutationResult, queryResult, lazyOptions,
                           memoDeps, nativeInFlight, queryInFlight, mutationsInFlight,
                           mostRecentMutationId, store, rendered, pixelEvents,
                           nativeIssued, queryIssued, createLog, submits, succeeded>>

NextReducer == Reduce

SpecReducer == Init /\ [][NextReducer]_vars

(***************************************************************************)
(* Properties                                                              *)
(***************************************************************************)
\* The steps the properties speak of, told from what they change.
SubmitStep == submits' = submits + 1
NativeSettles == Len(nativeInFlight') < Len(nativeInFlight)
QueryResolves == queryInFlight # None /\ queryInFlight' = None

\* At least one of the fields fails its validator; a null name or phone passes.
SomeFieldInvalid ==
    \/ ~validateEmail(state.email)
    \/ (state.name # None /\ ~validateUserName(Val(state.name)))
    \/ (state.phone # None /\ ~validatePhoneNumber(Val(state.phone)))

\* C1: a submit attempt in which email, name or phone fails its validator (a null
\* name or phone counts as valid) issues no native write, no dedup query and no
\* legacy create-mutation and emits no analytics event; with email = "" it leaves
\* invalidEmail = true.
C1_InvalidSubmitIssuesNothing ==
    [][(SubmitStep /\ SomeFieldInvalid) =>
          /\ nativeIssued' = nativeIssued
          /\ nativeInFlight' = nativeInFlight
          /\ queryIssued' = queryIssued
          /\ queryInFlight' = queryInFlight
          /\ createLog' = createLog
          /\ mutationsInFlight' = mutationsInFlight
          /\ pixelEvents' = pixelEvents
          /\ (state.email = EmptyString => state'.invalidEmail)]_vars

C1_Witness ==
    /\ last.op = "submit"
    /\ ~last.ok
    /\ state.email = EmptyString
    /\ state.invalidEmail
    /\ nativeIssued = 0
    /\ pixelEvents = 0

\* C2: when a dedup query resolves with one or more matching documents, no legacy
\* create-mutation is invoked for that resolution and legacySubmission becomes
\* succeeded (not loading, no error) with the placeholder identifier 'default-id'.
C2_MatchSynthesizesSuccess ==
    [][(/\ QueryResolves
        /\ queryResult'.data # None
        /\ Len(Val(queryResult'.data).documents) >= 1) =>
          /\ createLog' = createLog
          /\ mutationsInFlight' = mutationsInFlight
          /\ state'.submission.loading = FALSE
          /\ state'.submission.error = None
          /\ state'.submission.data =
                Some([createDocument |-> [documentId |-> DefaultId]])]_vars

C2_Witness ==
    /\ last.op = "query"
    /\ last.ok
    /\ last.n >= 1
    /\ state.submission.data = Some([createDocument |-> [documentId |-> DefaultId]])
    /\ createLog = <<>>

\* C3: when the dedup query of a validated submission resolves with zero matching
\* documents, the legacy create-mutation is invoked exactly once as a consequence:
\* once in that step, and in no step that is not such a resolution.
C3_NoMatchCreatesOnce ==
    [][/\ (/\ QueryResolves
           /\ queryResult'.data # None
           /\ Len(Val(queryResult'.data).documents) = 0) =>
             /\ Len(createLog') = Len(createLog) + 1
             /\ Cardinality(mutationsInFlight') = Cardinality(mutationsInFlight) + 1
             /\ mostRecentMutationId' = mostRecentMutationId + 1
       /\ (createLog' # createLog \/ mostRecentMutationId' # mostRecentMutationId) =>
             /\ QueryResolves
             /\ queryResult'.data # None
             /\ Len(Val(queryResult'.data).documents) = 0]_vars

C3_Witness ==
    /\ last.op = "query"
    /\ last.ok
    /\ last.n = 0
    /\ Len(createLog) = 1
    /\ Cardinality(mutationsInFlight) = 1

\* C4: every legacy create-mutation that is issued carries a document whose email
\* is the email that was submitted and named in the filter of the dedup query that
\* triggered it, whatever field updates come between the submit and the resolution.
C4_CreateCarriesSubmittedEmail ==
    \A i \in DOMAIN createLog : createLog[i].where = WhereClause(createLog[i].email)

\* C5: at most one legacy create-mutation is issued per distinct email, and the
\* legacy store never holds two documents with the same email.
C5_NoDuplicateRecords ==
    /\ \A i, j \in DOMAIN createLog :
          i # j => createLog[i].email # createLog[j].email
    /\ \A e \in DOMAIN store : store[e] <= 1

\* C6: when a legacy create-mutation rejects, legacySubmission becomes failed and
\* the error view is rendered (the override if supplied, else the default message).
C6_RejectedCreateShowsError ==
    (last.op = "mutation" /\ ~last.ok) =>
        /\ state.submission.error # None
        /\ ~state.submission.loading
        /\ rendered = (IF props.ErrorState THEN "ErrorState" ELSE "defaultErrorMessage")

\* C7: when the dedup query fails, legacySubmission becomes failed and the error
\* view is rendered.
C7_FailedQueryShowsError ==
    (last.op = "query" /\ ~last.ok) =>
        /\ state.submission.error # None
        /\ rendered \in ErrorViews

C9_ViewPriority ==
    LET sub == state.submission
        first == sub.loading /\ props.LoadingState
        second == ~first /\ sub.error # None
        third == /\ ~first
                 /\ ~second
                 /\ sub.data # None
                 /\ Len(Val(sub.data).createDocument.documentId) > 0
    IN  /\ first => rendered = "LoadingState"
        /\ second /\ props.ErrorState => rendered = "ErrorState"
        /\ second /\ ~props.ErrorState => rendered = "defaultErrorMessage"
        /\ third /\ props.SuccessState => rendered = "SuccessState"
        /\ third /\ ~props.SuccessState => rendered = "defaultSuccessMessage"
        /\ ~first /\ ~second /\ ~third => rendered = "newsletterForm"

C9_Witness ==
    /\ state.submission.loading
    /\ ~props.LoadingState
    /\ rendered = "newsletterForm"
    /\ mutationsInFlight # {}

\* C10: every submit attempt, valid or not, overwrites the three invalid flags
\* with the outcome of the validators on the field values at the submit, so a flag
\* raised by an earlier attempt is lowered by a later one in which the field is valid.
C10_SubmitOverwritesFlags ==
    [][SubmitStep =>
          /\ state'.invalidEmail = ~validateEmail(state.email)
          /\ state'.invalidName =
                (state.name # None /\ ~validateUserName(Val(state.name)))
          /\ state'.invalidPhone =
                (state.phone # None /\ ~validatePhoneNumber(Val(state.phone)))]_vars

C10_Witness ==
    /\ last.op = "submit"
    /\ last.flags[1]
    /\ ~state.invalidEmail
    /\ validateEmail(state.email)

\* C11: a validated submit runs steps 3-6 whatever came before it, a success of
\* the same input included: the analytics event is emitted and the native write
\* is issued at the submit, the dedup query is issued when the native write
\* settles, and every dedup query that resolves with a result triggers the
\* dedup-gated step, a create-mutation for no documents and the synthesized
\* success otherwise.
C11_ResubmitRerunsSteps ==
    [][/\ (SubmitStep /\ ~SomeFieldInvalid) =>
             /\ pixelEvents' = pixelEvents + 1
             /\ nativeIssued' = nativeIssued + 1
             /\ Len(nativeInFlight') = Len(nativeInFlight) + 1
             /\ nativeInFlight'[Len(nativeInFlight')].email = state.email
       /\ NativeSettles =>
             /\ queryIssued' = queryIssued + 1
             /\ queryInFlight' # None
             /\ state'.validNewsLetter.loading
       /\ (QueryResolves /\ queryResult'.data # None) =>
             IF Len(Val(queryResult'.data).documents) = 0
             THEN Len(createLog') = Len(createLog) + 1
             ELSE /\ createLog' = createLog
                  /\ state'.submission = SynthesizedResult]_vars

\* The third submit carries the email whose earlier submission was shown as a
\* success, and the event and the native write went out once more.
C11_Witness ==
    /\ last.op = "submit"
    /\ last.ok
    /\ succeeded = Some(state.email)
    /\ submits = 3
    /\ pixelEvents = 3
    /\ nativeIssued = 3
    /\ nativeInFlight # <<>>
    /\ nativeInFlight[Len(nativeInFlight)].email = state.email

\* An AsyncResult is in at most one of pending, succeeded and failed.
AtMostOne(result) ==
    /\ ~(result.loading /\ result.data # None)
    /\ ~(result.loading /\ result.error # None)
    /\ ~(result.data # None /\ result.error # None)

\* C12: in every reachable state legacySubmission and dedupQuery are each in at
\* most one of pending (loading), succeeded (data present) and failed (error
\* present): no two of loading = true, data defined, error defined hold together.
C12_AtMostOneOutcome ==
    /\ AtMostOne(state.submission)
    /\ AtMostOne(state.validNewsLetter)

\* A create-mutation was rejected after a dedup query had succeeded, and another
\* dedup query is pending: failed, and pending after a success.
C12_Witness ==
    /\ state.submission.error # None
    /\ state.validNewsLetter.loading
    /\ createLog # <<>>
    /\ queryIssued = 2

\* An AsyncResult that holds an outcome: succeeded or failed, and not pending.
Settled(result) == ~result.loading /\ (result.data # None \/ result.error # None)

\* C13: legacySubmission moves only from pending to succeeded or to failed, and
\* once it is succeeded or failed no step other than a new submit attempt changes
\* it to the other outcome or back to pending.
C13_MonotonicPerAttempt ==
    [][/\ (Settled(state.submission) /\ ~SubmitStep) =>
             state'.submission = state.submission
       /\ (state.submission.loading /\ state'.submission # state.submission) =>
             Settled(state'.submission)]_vars

\* C14: immediately after a submit attempt that passes validation legacySubmission
\* and dedupQuery are pending: loading, with neither the idle value nor the data or
\* error of an earlier attempt.
C14_SubmitResetsToPending ==
    (last.op = "submit" /\ last.ok) =>
        /\ state.submission = SubmissionState(None, TRUE, None)
        /\ state.validNewsLetter = SubmissionState(None, TRUE, None)

\* The field of the state an action type replaces.
TargetField(type) ==
    CASE type = "UPDATE_EMAIL" -> "email"
      [] type = "UPDATE_NAME" -> "name"
      [] type = "UPDATE_PHONE" -> "phone"
      [] type = "UPDATE_CONFIRMATION" -> "confirmation"
      [] type = "SET_CUSTOM_VALUES" -> "customFields"
      [] type = "SET_INVALID_EMAIL" -> "invalidEmail"
      [] type = "SET_INVALID_NAME" -> "invalidName"
      [] type = "SET_INVALID_PHONE" -> "invalidPhone"
      [] type = "SET_MUTATION_VALUES" -> "submission"
      [] type = "SET_QUERY_VALUES" -> "validNewsLetter"

\* C15: applied to any state the reducer has produced, every action of a known
\* type gives a state whose targeted field is the action's value and whose other
\* fields are those of the state it was applied to, and an action of an unknown
\* type gives the state it was applied to.
C15_ReducerFrame ==
    \A type \in ActionTypes :
        \A value \in ActionValues(type) :
            LET after == newsletterContextReducer(state, [type |-> type, value |-> value])
            IN  IF type \in KnownTypes
                THEN /\ DOMAIN after = DOMAIN state
                     /\ after[TargetField(type)] = value
                     /\ \A f \in DOMAIN state \ {TargetField(type)} : after[f] = state[f]
                ELSE after = state

\* An action of an unknown type was dispatched after the email had been set,
\* and the email is still there.
C15_Witness ==
    /\ last.op = "UNKNOWN_ACTION"
    /\ edits = 2
    /\ state.email = EmailA
    /\ state = [InitialState EXCEPT !.email = EmailA]

\* A remote call of a validated submission has not resolved yet.
CallInFlight ==
    \/ nativeInFlight # <<>>
    \/ queryInFlight # None
    \/ mutationsInFlight # {}

\* C16: for as long as a native write, a dedup query or a legacy create-mutation
\* of a validated submission has not resolved, legacySubmission is pending and,
\* with a LoadingState override supplied, the loading view is rendered.
C16_InFlightShowsLoading ==
    CallInFlight =>
        /\ state.submission.loading
        /\ (props.LoadingState => rendered = "LoadingState")

\* C17: a legacy create-mutation is issued only in the step in which a dedup
\* query, issued after a validated submit, resolves without error with zero
\* documents: never at mount, before a submit, while the dedup query is pending
\* or after a dedup query error.
C17_CreateOnlyAfterEmptyDedup ==
    [][(createLog' # createLog \/ mostRecentMutationId' # mostRecentMutationId) =>
          /\ QueryResolves
          /\ last'.op = "query"
          /\ last'.ok
          /\ last'.n = 0
          /\ pixelEvents >= 1
          /\ nativeIssued >= 1
          /\ queryIssued >= 1
          /\ ~state'.validNewsLetter.loading
          /\ state'.validNewsLetter.error = None
          /\ state'.validNewsLetter.data = Some([documents |-> <<>>])]_vars

\* The create-mutation of the first dedup query went out when that query
\* returned no documents, while a later submission is still on its native write.
C17_Witness ==
    /\ last.op = "query"
    /\ last.ok
    /\ last.n = 0
    /\ mostRecentMutationId = 1
    /\ Len(createLog) = 1
    /\ queryIssued = 1
    /\ queryInFlight = None
    /\ nativeInFlight # <<>>

\* C18: the native write and the dedup query of a submission are both in flight
\* once the submit has run, so that either can resolve first: every validated
\* submit that has issued its native write has issued its dedup query as well,
\* whether or not that native write has resolved.
C18_DedupRacesNativeWrite ==
    queryIssued = nativeIssued

\* C19: a validated submit pushes the analytics event and then issues the native
\* write, in that order and once each, and issues no dedup query in that step;
\* a dedup query is issued only in a later step, when a native write settles;
\* and no step but a validated submit emits an event, whatever a remote call
\* answers.
C19_StepOrder ==
    [][/\ (SubmitStep /\ ~SomeFieldInvalid) =>
             /\ last'.calls = <<"push", "subscribe">>
             /\ pixelEvents' = pixelEvents + 1
             /\ nativeIssued' = nativeIssued + 1
             /\ queryIssued' = queryIssued
       /\ queryIssued' # queryIssued =>
             /\ NativeSettles
             /\ last'.calls = <<"validNewsLetterCustom">>
             /\ queryIssued' = queryIssued + 1
             /\ queryIssued' + Len(nativeInFlight') = nativeIssued
             /\ pixelEvents' = pixelEvents
       /\ pixelEvents' # pixelEvents => (SubmitStep /\ ~SomeFieldInvalid)]_vars

\* Two validated submits: two events, two native writes; the first native write
\* failed and the dedup query of its submission is out, the second is pending.
C19_Witness ==
    /\ last.op = "native"
    /\ ~last.ok
    /\ last.calls = <<"validNewsLetterCustom">>
    /\ pixelEvents = 2
    /\ nativeIssued = 2
    /\ queryIssued = 1
    /\ Len(nativeInFlight) = 1

\* C20: no remote operation is retried: after every step the native writes, the
\* dedup queries and the legacy create-mutations issued so far are each at most
\* as many as the validated submits (one analytics event each), and a step in
\* which a remote call fails issues no call of the kind that failed.
C20_NoRetries ==
    [][/\ nativeIssued' <= pixelEvents'
       /\ queryIssued' <= pixelEvents'
       /\ Len(createLog') <= pixelEvents'
       /\ mostRecentMutationId' = Len(createLog')
       /\ (last'.op = "native" /\ ~last'.ok) => nativeIssued' = nativeIssued
       /\ (last'.op = "query" /\ ~last'.ok) => queryIssued' = queryIssued
       /\ (last'.op = "mutation" /\ ~last'.ok) => createLog' = createLog]_vars

\* One validated submit whose create-mutation was rejected: one call of each kind
\* has been issued and nothing is in flight.
C20_Witness ==
    /\ last.op = "mutation"
    /\ ~last.ok
    /\ pixelEvents = 1
    /\ nativeIssued = 1
    /\ queryIssued = 1
    /\ Len(createLog) = 1
    /\ nativeInFlight = <<>>
    /\ queryInFlight = None
    /\ mutationsInFlight = {}
    /\ rendered \in ErrorViews

\* C21: the task in which a native write, a dedup query or a legacy
\* create-mutation resolves dispatches exactly one action into the store, not
\* zero and not more than one.
C21_OneDispatchPerResolution ==
    last.op \in {"native", "query", "mutation"} => dispatched = 1

\* C22: whenever the success view is rendered, the values handed to it are the
\* values that were submitted, whatever field updates came while the operations
\* were in flight; checked on the email: the one handed to the SuccessState
\* override is the email named in the dedup query of the submission that
\* succeeded.
C22_SuccessViewGetsSubmittedValues ==
    rendered = "SuccessState" =>
        Some(subscribedUserData(state).email) = succeeded

\* C23: once the success view or the error view is rendered, no later step
\* changes the rendered view and no later step issues a legacy create-mutation,
\* whatever operation resolves.
C23_OutcomeViewIsFinal ==
    [][(rendered \in SuccessViews \cup ErrorViews) =>
          /\ rendered' = rendered
          /\ createLog' = createLog
          /\ mostRecentMutationId' = mostRecentMutationId]_vars

\* C24: when every issued remote operation resolves, every submit that passes
\* validation is eventually followed by a state in which the success view or
\* the error view is rendered.
C24_SubmitLeadsToOutcome ==
    (last.op = "submit" /\ last.ok) ~> (rendered \in SuccessViews \cup ErrorViews)

\* C25: a form has at most one submission in flight: while a native write, a
\* dedup query or a legacy create-mutation of a validated submit is pending, a
\* submit gesture issues no native write, no dedup query and no create-mutation.
C25_OneSubmissionInFlight ==
    [][(SubmitStep /\ CallInFlight) =>
          /\ nativeIssued' = nativeIssued
          /\ nativeInFlight' = nativeInFlight
          /\ queryIssued' = queryIssued
          /\ createLog' = createLog]_vars

\* C26: the success view is rendered only when the legacy store has confirmed
\* the subscription: the step that brings it up is the resolution of a dedup
\* query with at least one document or the successful resolution of a legacy
\* create-mutation, which stored the document and returned a non-empty
\* documentId; the settling of a native write never brings it up.
C26_SuccessOnlyWhenStoreConfirmed ==
    [][/\ (rendered' \in SuccessViews /\ rendered \notin SuccessViews) =>
             \/ /\ last'.op = "query"
                /\ last'.ok
                /\ last'.n >= 1
                /\ state'.submission = SynthesizedResult
             \/ /\ last'.op = "mutation"
                /\ last'.ok
                /\ store' # store
                /\ state'.submission = CreatedResult
                /\ Len(Val(state'.submission.data).createDocument.documentId) > 0
       /\ rendered' \in SuccessViews =>
             state'.submission \in {SynthesizedResult, CreatedResult}
       /\ last'.op = "native" =>
             (rendered' \in SuccessViews => rendered \in SuccessViews)]_vars

\* The success view after a create-mutation the store accepted, although the
\* native write of the submission had failed.
C26_Witness ==
    /\ rendered \in SuccessViews
    /\ last.op = "mutation"
    /\ last.ok
    /\ state.submission = CreatedResult
    /\ Stored(EmailA) = 1
    /\ nativeIssued = 1
    /\ nativeInFlight = <<>>

====
